---- MODULE Spec2Model ----
(***************************************************************************)
(* The trivia API of backend/flaskr/__init__.py as a state machine.        *)
(*                                                                         *)
(* The state is the relational store (the Question and Category tables and *)
(* the Question id sequence) together with the request being served and    *)
(* the response it produced.  Every route handler is one action: it reads  *)
(* a request drawn from a small set of inputs, runs the handler on the     *)
(* current store and leaves the new store and the response.                *)
(*                                                                         *)
(* Texts that the code inspects (Question.question, searchTerm) are        *)
(* sequences of one-character strings; every other JSON scalar is a        *)
(* string, as the browser form sends it.                                   *)
(***************************************************************************)
EXTENDS Integers, Sequences, FiniteSets, TLC

VARIABLES questions, categories, nextId, req, resp

vars == <<questions, categories, nextId, req, resp>>

(***************************************************************************)
(* Program constant and the bounds of the model.                           *)
(***************************************************************************)
QUESTIONS_PER_PAGE == 10

\* Largest number of questions the store holds before the first request.
MaxSeed == 13
\* Largest number of questions created by POST /api/questions in one run.
MaxCreates == 1
\* Largest ?page= value a request carries.
MaxPage == 2
\* Largest store the quiz is played on (SpecQuiz, SpecPlay).
MaxQuizSeed == 4
\* Longest list handed to paginate_elements on its own (SpecPaginate).
MaxLen == 21

(***************************************************************************)
(* Values.                                                                 *)
(***************************************************************************)
\* JSON null / Python None.
None == [null |-> TRUE]

RECURSIVE Str(_)
\* str(n) for n >= 0: the decimal digits of n.
Str(n) ==
    LET digit == <<"0", "1", "2", "3", "4", "5", "6", "7", "8", "9">>
    IN  IF n < 10 THEN digit[n + 1] ELSE Str(n \div 10) \o digit[(n % 10) + 1]

\* The integers the store's Integer column can parse from the strings of the model.
IntValues == 0..(MaxSeed + MaxCreates + 2)

\* TRUE iff the string is the decimal form of an integer.
IsIntString(s) == \E n \in IntValues : Str(n) = s

\* The integer a decimal string denotes.
ParseInt(s) == CHOOSE n \in IntValues : Str(n) = s

\* Lower-casing of one character (ILIKE compares case-insensitively).
Lower(c) ==
    CASE c = "A" -> "a"
      [] c = "B" -> "b"
      [] c = "C" -> "c"
      [] OTHER -> c

\* One pattern character against one text character: "_" matches any character.
CharMatches(p, c) == p = "_" \/ Lower(p) = Lower(c)

\* text ILIKE '%term%': the term occurs somewhere in the text.
ILikeContains(text, term) ==
    \E k \in 0..(Len(text) - Len(term)) :
        \A j \in 1..Len(term) : CharMatches(term[j], text[k + j])

\* dict.get(key, default)
Get(body, key, default) == IF key \in DOMAIN body THEN body[key] ELSE default

\* Python's seq[start:end] (0-based, end exclusive, negative indexes count from the end).
PySlice(seq, start, end) ==
    LET n == Len(seq)
        norm(i) == IF i < 0 THEN (IF i + n < 0 THEN 0 ELSE i + n)
                   ELSE (IF i > n THEN n ELSE i)
        lo == norm(start)
        hi == norm(end)
    IN  IF lo >= hi THEN << >> ELSE SubSeq(seq, lo + 1, hi)

(***************************************************************************)
(* The store: models.Question, models.Category and the query interface.    *)
(***************************************************************************)
\* The Category rows a database is seeded with.
Science == [id |-> 1, type |-> "Science"]
Art == [id |-> 2, type |-> "Art"]
CategorySeeds == {{Science, Art}}

\* Question texts: both hold an "a"; only T1 holds a "c" (in upper case).
T1 == <<"C", "a">>
T2 == <<"a", "b">>

\* The i-th question of a seeded store: one question of category "2", one of
\* category "3" (which names no Category row), every later one of category "1".
SeedQuestion(i) ==
    [id |-> i,
     question |-> IF i % 2 = 1 THEN T1 ELSE T2,
     answer |-> "x",
     category |-> IF i <= 2 THEN Str(i + 1) ELSE Str(1),
     difficulty |-> ((i \div 2) % 2) + 1]

\* A store of n questions with the ids 1..n.
Seed(n) == {SeedQuestion(i) : i \in 1..n}

\* Question.format()
Format(q) ==
    [id |-> q.id, question |-> q.question, answer |-> q.answer,
     category |-> q.category, difficulty |-> q.difficulty]

Ids(rows) == {q.id : q \in rows}

RECURSIVE All(_)
\* Query.all(): the rows in the order the table holds them (insertion order).
All(rows) ==
    IF rows = {} THEN << >>
    ELSE LET first == CHOOSE q \in rows : \A o \in rows : q.id <= o.id
         IN  <<first>> \o All(rows \ {first})

\* The ORDER BY difficulty of the store: ties stay in table order.
DifficultyBefore(a, b) ==
    a.difficulty < b.difficulty \/ (a.difficulty = b.difficulty /\ a.id <= b.id)

RECURSIVE OrderByDifficulty(_)
\* Query.order_by(Question.difficulty).all()
OrderByDifficulty(rows) ==
    IF rows = {} THEN << >>
    ELSE LET first == CHOOSE q \in rows : \A o \in rows : DifficultyBefore(q, o)
         IN  <<first>> \o OrderByDifficulty(rows \ {first})

\* Question(...).insert(): the row the store keeps, with the next id of the sequence.
NewQuestion(question, answer, category, difficulty) ==
    [id |-> nextId, question |-> question, answer |-> answer,
     category |-> category, difficulty |-> ParseInt(difficulty)]

\* The insert raises when the Integer column cannot take the difficulty.
InsertRaises(difficulty) == ~IsIntString(difficulty)

(***************************************************************************)
(* Responses.                                                              *)
(***************************************************************************)
ErrorMessage(code) ==
    CASE code = 400 -> "bad request"
      [] code = 404 -> "resource not found"
      [] code = 405 -> "method not allowed"
      [] code = 422 -> "unprocessable"
      [] OTHER -> "server error"

\* abort(code), as the matching error handler renders it.
ErrorResponse(code) ==
    [status |-> code, success |-> FALSE, error |-> code, message |-> ErrorMessage(code)]

(***************************************************************************)
(* paginate_elements and the route handlers.                               *)
(***************************************************************************)
\* paginate_elements with an end index one too far.
paginate_elements_inclusive_end(elements, page) ==
    LET start == (page - 1) * QUESTIONS_PER_PAGE
        end == start + QUESTIONS_PER_PAGE + 1
        formatted_elements == [i \in 1..Len(elements) |-> Format(elements[i])]
    IN  PySlice(formatted_elements, start, end)

paginate_elements(elements, page) ==
    LET start == (page - 1) * QUESTIONS_PER_PAGE
        end == start + QUESTIONS_PER_PAGE
        formatted_elements == [i \in 1..Len(elements) |-> Format(elements[i])]
    IN  PySlice(formatted_elements, start, end)

\* The id -> type dictionary built from Category.query.all().
CategoriesDict == [i \in {c.id : c \in categories} |->
                      (CHOOSE c \in categories : c.id = i).type]

get_categories ==
    IF DOMAIN CategoriesDict = {} THEN ErrorResponse(404)
    ELSE [status |-> 200, categories |-> CategoriesDict, success |-> TRUE]

\* get_questions that answers 404 only for an empty store.
get_questions_404_on_empty_store(page) ==
    LET current_questions == paginate_elements(OrderByDifficulty(questions), page)
    IN  IF Len(All(questions)) = 0 THEN ErrorResponse(404)
        ELSE [status |-> 200,
              categories |-> CategoriesDict,
              questions |-> current_questions,
              current_category |-> << >>,
              success |-> TRUE,
              questions_per_page |-> Len(current_questions),
              total_questions |-> Len(All(questions))]

get_questions(page) ==
    LET current_questions == paginate_elements(OrderByDifficulty(questions), page)
    IN  IF Len(current_questions) = 0 THEN ErrorResponse(404)
        ELSE [status |-> 200,
              categories |-> CategoriesDict,
              questions |-> current_questions,
              current_category |-> << >>,
              success |-> TRUE,
              questions_per_page |-> Len(current_questions),
              total_questions |-> Len(All(questions))]

\* delete_question whose abort(404) escapes the except clause.
delete_question_uncaught_404(question_id, page) ==
    LET found == {q \in questions : q.id = question_id}
        remaining == questions \ found
        current_questions == paginate_elements(OrderByDifficulty(remaining), page)
    IN  IF found = {}
        THEN [resp |-> ErrorResponse(404), questions |-> questions]
        ELSE [resp |-> [status |-> 200,
                        questions |-> current_questions,
                        deleted |-> question_id,
                        success |-> TRUE,
                        questions_per_page |-> Len(current_questions),
                        total_questions |-> Len(All(remaining))],
              questions |-> remaining]

\* The handler's result: the response and the Question table it leaves.
delete_question(question_id, page) ==
    LET found == {q \in questions : q.id = question_id}
        \* the try block: the abort(404) it raises, or 0
        raised == IF found = {} THEN 404 ELSE 0
        remaining == questions \ found
        current_questions == paginate_elements(OrderByDifficulty(remaining), page)
    IN  IF raised # 0
        THEN \* except: abort(422)
             [resp |-> ErrorResponse(422), questions |-> questions]
        ELSE [resp |-> [status |-> 200,
                        questions |-> current_questions,
                        deleted |-> question_id,
                        success |-> TRUE,
                        questions_per_page |-> Len(current_questions),
                        total_questions |-> Len(All(remaining))],
              questions |-> remaining]

\* Truthiness of body.get('searchTerm').
HasSearchTerm(body) == Get(body, "searchTerm", << >>) # << >>

\* Question.query.filter(Question.question.ilike(f'%{search_term}%')).all()
SearchResult(search_term) ==
    All({q \in questions : ILikeContains(q.question, search_term)})

\* The validation with "and" for "or": only a body with nothing is refused.
EveryFieldEmpty(question, answer, category, difficulty) ==
    question = << >> /\ answer = "" /\ category = "" /\ difficulty = ""

\* The validation of the four fields: TRUE iff the handler aborts with 422.
AnyFieldEmpty(question, answer, category, difficulty) ==
    question = << >> \/ answer = "" \/ category = "" \/ difficulty = ""

\* The response to a create with total_questions taken from the page, as in the search.
CreatedResponseWithPageTotal(created, stored, page) ==
    LET current_questions == paginate_elements(OrderByDifficulty(stored), page)
    IN  [status |-> 200,
         questions |-> current_questions,
         question_created |-> created.question,
         created |-> created.id,
         success |-> TRUE,
         questions_per_page |-> Len(current_questions),
         total_questions |-> Len(current_questions)]

\* The response to a create: the created row and the table after the insert.
CreatedResponse(created, stored, page) ==
    LET current_questions == paginate_elements(OrderByDifficulty(stored), page)
    IN  [status |-> 200,
         questions |-> current_questions,
         question_created |-> created.question,
         created |-> created.id,
         success |-> TRUE,
         questions_per_page |-> Len(current_questions),
         total_questions |-> Len(All(stored))]

\* The handler's result: the response, the Question table and the id sequence.
post_question(body, page) ==
    IF HasSearchTerm(body)
    THEN LET search_result == SearchResult(body.searchTerm)
             current_search_result == paginate_elements(search_result, page)
         IN  [resp |-> IF Len(search_result) = 0 THEN ErrorResponse(404)
                       ELSE [status |-> 200,
                             success |-> TRUE,
                             questions |-> current_search_result,
                             total_questions |-> Len(current_search_result)],
              questions |-> questions,
              nextId |-> nextId]
    ELSE LET question == Get(body, "question", << >>)
             answer == Get(body, "answer", "")
             category == Get(body, "category", "")
             difficulty == Get(body, "difficulty", "")
             unchanged == [resp |-> ErrorResponse(422),
                           questions |-> questions, nextId |-> nextId]
         IN  IF AnyFieldEmpty(question, answer, category, difficulty)
             THEN unchanged
             ELSE IF InsertRaises(difficulty)
             THEN \* except: abort(422)
                  unchanged
             ELSE LET created == NewQuestion(question, answer, category, difficulty)
                      stored == questions \cup {created}
                  IN  [resp |-> CreatedResponse(created, stored, page),
                       questions |-> stored,
                       nextId |-> nextId + 1]

\* get_questions_by_category that counts the questions of the category only.
get_questions_by_category_filtered_total(category_id, page) ==
    LET found == {c \in categories : c.id = category_id}
    IN  IF found = {} THEN ErrorResponse(400)
        ELSE LET category == CHOOSE c \in found : TRUE
                 questions_by_category ==
                     All({q \in questions : q.category = Str(category.id)})
                 current_questions_by_category ==
                     paginate_elements(questions_by_category, page)
             IN  [status |-> 200,
                  current_category |-> category.type,
                  questions |-> current_questions_by_category,
                  success |-> TRUE,
                  questions_per_page |-> Len(current_questions_by_category),
                  total_questions |-> Len(questions_by_category)]

\* get_questions_by_category that lists the questions without looking the category up.
get_questions_by_category_unchecked(category_id, page) ==
    LET found == {c \in categories : c.id = category_id}
        questions_by_category ==
            All({q \in questions : q.category = Str(category_id)})
        current_questions_by_category ==
            paginate_elements(questions_by_category, page)
    IN  [status |-> 200,
         current_category |-> IF found = {} THEN "" ELSE (CHOOSE c \in found : TRUE).type,
         questions |-> current_questions_by_category,
         success |-> TRUE,
         questions_per_page |-> Len(current_questions_by_category),
         total_questions |-> Len(All(questions))]

get_questions_by_category(category_id, page) ==
    LET found == {c \in categories : c.id = category_id}
    IN  IF found = {} THEN ErrorResponse(400)
        ELSE LET category == CHOOSE c \in found : TRUE
                 questions_by_category ==
                     All({q \in questions : q.category = Str(category.id)})
                 current_questions_by_category ==
                     paginate_elements(questions_by_category, page)
             IN  [status |-> 200,
                  current_category |-> category.type,
                  questions |-> current_questions_by_category,
                  success |-> TRUE,
                  questions_per_page |-> Len(current_questions_by_category),
                  total_questions |-> Len(All(questions))]

\* TRUE iff the try block of the quiz handler raises before it queries.
QuizRaises(body) ==
    \/ ~("quiz_category" \in DOMAIN body /\ "previous_questions" \in DOMAIN body)
    \/ "type" \notin DOMAIN body.quiz_category
    \/ (body.quiz_category.type # "click" /\ "id" \notin DOMAIN body.quiz_category)

\* The elements of a JSON list.
Elems(list) == {list[i] : i \in 1..Len(list)}

\* The quiz query without the notin_ filter of the category branch.
AvailableQuestionsCategoryOnly(body) ==
    LET category == body.quiz_category
        previous_questions == Elems(body.previous_questions)
    IN  IF category.type = "click"
        THEN All({q \in questions : q.id \notin previous_questions})
        ELSE All({q \in questions : q.category = category.id})

\* The quiz query that excludes only the question served last.
AvailableQuestionsButLast(body) ==
    LET category == body.quiz_category
        list == body.previous_questions
        previous_questions == IF list = << >> THEN {} ELSE {list[Len(list)]}
    IN  IF category.type = "click"
        THEN All({q \in questions : q.id \notin previous_questions})
        ELSE All({q \in questions :
                    q.category = category.id /\ q.id \notin previous_questions})

\* The rows the quiz handler draws from.
AvailableQuestions(body) ==
    LET category == body.quiz_category
        previous_questions == Elems(body.previous_questions)
    IN  IF category.type = "click"
        THEN All({q \in questions : q.id \notin previous_questions})
        ELSE All({q \in questions :
                    q.category = category.id /\ q.id \notin previous_questions})

\* The responses the handler can give: one for each value random.randrange can return.
get_random_quiz_question(body) ==
    IF QuizRaises(body) THEN {ErrorResponse(400)}
    ELSE LET available_questions == AvailableQuestions(body)
         IN  IF Len(available_questions) > 0
             THEN {[status |-> 200, success |-> TRUE,
                    question |-> Format(available_questions[r + 1])] :
                       r \in 0..(Len(available_questions) - 1)}
             ELSE {[status |-> 200, success |-> TRUE, question |-> None]}

(***************************************************************************)
(* Requests: the inputs the actions draw from.                             *)
(***************************************************************************)
\* ?page= values.
Pages == 1..MaxPage

\* Ids a DELETE names: a seeded question, a created one, one never assigned.
DeleteIds == {1, MaxSeed + 1, MaxSeed + MaxCreates + 1}

\* A body with all four fields populated.
BaseBody == [question |-> T1, answer |-> "x", category |-> "1", difficulty |-> "1"]

\* Bodies that pass the validation.
FullBodies ==
    {BaseBody,
     [question |-> T2, answer |-> "x", category |-> "3", difficulty |-> "2",
      searchTerm |-> << >>]}

\* The body without one of its keys.
Without(body, key) == [k \in DOMAIN body \ {key} |-> body[k]]

\* BaseBody with one field missing or empty, and bodies with nothing useful.
PartialBodies ==
    {Without(BaseBody, k) : k \in DOMAIN BaseBody}
        \cup {[BaseBody EXCEPT !.question = << >>],
              [BaseBody EXCEPT !.answer = ""],
              [BaseBody EXCEPT !.category = ""],
              [BaseBody EXCEPT !.difficulty = ""],
              [searchTerm |-> << >>]}

\* A populated difficulty the Integer column refuses.
BadDifficultyBody == [BaseBody EXCEPT !.difficulty = "x"]

\* Search terms: one in every text, one in no text.
SearchTerms == {<<"A">>, <<"z">>}

\* Bodies with a search term; the last also has the four fields, and its term
\* ("_" stands for any character) is in T1 only.
SearchBodies ==
    {[searchTerm |-> t] : t \in SearchTerms}
        \cup {[question |-> T1, answer |-> "x", category |-> "1",
               difficulty |-> "1", searchTerm |-> <<"c", "_">>]}

\* POST /api/questions: the bodies that reach the pagination come with every ?page=,
\* the refused ones with the default page.
PostRequests ==
    ((FullBodies \cup SearchBodies) \X Pages)
        \cup ((PartialBodies \cup {BadDifficultyBody}) \X {1})

\* /api/categories/<int:category_id>/questions
CategoryIds == 1..3

RECURSIVE Ascending(_)
\* A set of ids as a JSON list.
Ascending(ids) ==
    IF ids = {} THEN << >>
    ELSE LET least == CHOOSE i \in ids : \A j \in ids : i <= j
         IN  <<least>> \o Ascending(ids \ {least})

\* quiz_category objects: "click" is every category.
QuizCategories ==
    {[type |-> "click", id |-> "0"],
     [type |-> "Science", id |-> "1"],
     [type |-> "Art", id |-> "2"],
     [type |-> "History", id |-> "3"]}

\* Quiz bodies with both keys, for the given previous_questions lists.
QuizBodies(lists) ==
    {[quiz_category |-> c, previous_questions |-> l] : c \in QuizCategories, l \in lists}

\* Quiz bodies the handler refuses.
BadQuizBodies ==
    {[previous_questions |-> << >>],
     [quiz_category |-> [type |-> "click", id |-> "0"]],
     [quiz_category |-> [id |-> "1"], previous_questions |-> << >>]}

\* Every previous_questions list over the stored ids and one stale id.
AnyLists == {Ascending(s) : s \in SUBSET (Ids(questions) \cup {nextId})}

(***************************************************************************)
(* The service: one action per route.                                      *)
(***************************************************************************)
NoRequest == [op |-> "none"]

Init ==
    /\ \E n \in 0..MaxSeed : questions = Seed(n)
    /\ categories \in CategorySeeds
    /\ nextId = MaxSeed + 1
    /\ req = NoRequest
    /\ resp = None

GetCategories ==
    /\ req' = [op |-> "get_categories"]
    /\ resp' = get_categories
    /\ UNCHANGED <<questions, categories, nextId>>

GetQuestions ==
    \E page \in Pages :
        /\ req' = [op |-> "get_questions", page |-> page]
        /\ resp' = get_questions(page)
        /\ UNCHANGED <<questions, categories, nextId>>

DeleteQuestion ==
    \E question_id \in DeleteIds, page \in Pages :
        LET result == delete_question(question_id, page)
        IN  /\ req' = [op |-> "delete_question", question_id |-> question_id,
                       page |-> page]
            /\ resp' = result.resp
            /\ questions' = result.questions
            /\ UNCHANGED <<categories, nextId>>

PostQuestion ==
    \E request \in PostRequests :
        LET body == request[1]
            page == request[2]
            result == post_question(body, page)
        IN  /\ result.nextId <= MaxSeed + MaxCreates + 1
            /\ req' = [op |-> "post_question", body |-> body, page |-> page]
            /\ resp' = result.resp
            /\ questions' = result.questions
            /\ nextId' = result.nextId
            /\ UNCHANGED categories

GetQuestionsByCategory ==
    \E category_id \in CategoryIds, page \in Pages :
        /\ req' = [op |-> "get_questions_by_category", category_id |-> category_id,
                   page |-> page]
        /\ resp' = get_questions_by_category(category_id, page)
        /\ UNCHANGED <<questions, categories, nextId>>

\* POST /api/quizzes with a body of the given set.
QuizRequest(bodies) ==
    \E body \in bodies :
        /\ req' = [op |-> "get_random_quiz_question", body |-> body]
        /\ resp' \in get_random_quiz_question(body)
        /\ UNCHANGED <<questions, categories, nextId>>

Next ==
    \/ GetCategories
    \/ GetQuestions
    \/ DeleteQuestion
    \/ PostQuestion
    \/ GetQuestionsByCategory

Spec == Init /\ [][Next]_vars

(***************************************************************************)
(* The quiz on a small store: any request (SpecQuiz), and a game in which  *)
(* the client sends back the ids it was served (SpecPlay).                 *)
(***************************************************************************)
InitQuiz ==
    /\ \E n \in 0..MaxQuizSeed : questions = Seed(n) /\ nextId = n + 1
    /\ categories \in CategorySeeds
    /\ req = NoRequest
    /\ resp = None

GetRandomQuizQuestion == QuizRequest(QuizBodies(AnyLists) \cup BadQuizBodies)

NextQuiz == GetRandomQuizQuestion

SpecQuiz == InitQuiz /\ [][NextQuiz]_vars

\* The first request of a game: a category and previous_questions = [].
QuizStart ==
    /\ req = NoRequest
    /\ QuizRequest(QuizBodies({<< >>}))

\* The list the client sends next: the served id appended, if one was served.
NextPreviousQuestions ==
    IF resp.question = None THEN req.body.previous_questions
    ELSE Append(req.body.previous_questions, resp.question.id)

\* Every later request of the game.
QuizNext ==
    /\ req # NoRequest
    /\ QuizRequest({[quiz_category |-> req.body.quiz_category,
                     previous_questions |-> NextPreviousQuestions]})

NextPlay == QuizStart \/ QuizNext

\* The client keeps asking: both steps are taken when they can be.
SpecPlay == InitQuiz /\ [][NextPlay]_vars /\ WF_vars(QuizStart) /\ WF_vars(QuizNext)

(***************************************************************************)
(* paginate_elements on its own: a list and a page, then the call.         *)
(***************************************************************************)
PaginateLists ==
    {All(Seed(n)) : n \in 0..MaxLen} \cup {OrderByDifficulty(Seed(n)) : n \in 0..MaxLen}

InitPaginate ==
    /\ questions = {}
    /\ categories \in CategorySeeds
    /\ nextId = 1
    /\ \E elements \in PaginateLists, page \in (-1)..(MaxPage + 1) :
           req = [op |-> "paginate_elements", elements |-> elements, page |-> page]
    /\ resp = None

Paginate ==
    /\ resp = None
    /\ resp' = [current_elements |-> paginate_elements(req.elements, req.page)]
    /\ UNCHANGED <<questions, categories, nextId, req>>

NextPaginate == Paginate

SpecPaginate == InitPaginate /\ [][NextPaginate]_vars

(***************************************************************************)
(* Properties.                                                             *)
(***************************************************************************)
Min(a, b) == IF a <= b THEN a ELSE b
Max(a, b) == IF a >= b THEN a ELSE b

\* The number of items of a page: 10, or what is left of n items from its offset.
PageLength(n, page) == Min(10, Max(0, n - (page - 1) * 10))

\* TRUE iff the formatted list is the given page of the rows.
IsPageOf(list, rows, page) ==
    /\ Len(list) = PageLength(Len(rows), page)
    /\ \A i \in 1..Len(list) : list[i] = Format(rows[(page - 1) * 10 + i])

\* C1: for a page number p >= 1, paginate_elements returns the elements at the
\* offsets (p-1)*10 .. (p-1)*10+9 that lie within the list, in their order; its
\* length is min(10, max(0, n - (p-1)*10)), never more than 10.
PaginateReturnsThePage ==
    (req.op = "paginate_elements" /\ resp # None /\ req.page >= 1)
        => /\ IsPageOf(resp.current_elements, req.elements, req.page)
           /\ Len(resp.current_elements) <= 10

\* C1 witness: the third page of 21 elements holds the last one.
PaginateLastPageReached ==
    /\ req.op = "paginate_elements" /\ resp # None
    /\ req.page = 3 /\ Len(req.elements) = 21
    /\ Len(resp.current_elements) = 1

AllFieldsPopulated(body) ==
    /\ Get(body, "question", << >>) # << >>
    /\ Get(body, "answer", "") # ""
    /\ Get(body, "category", "") # ""
    /\ Get(body, "difficulty", "") # ""

\* TRUE iff the question is on some page of GET /api/questions.
Listed(q) ==
    \E page \in 1..(Cardinality(questions) \div 10 + 1) :
        /\ get_questions(page).status = 200
        /\ Format(q) \in Elems(get_questions(page).questions)

\* C3: after a create that succeeds, the store holds one more question; the new
\* question has the id the response calls `created`, which no stored question had;
\* total_questions is the new count; GET /api/questions lists the new question.
CreateAddsOneQuestion ==
    /\ [][(/\ req'.op = "post_question"
           /\ ~HasSearchTerm(req'.body)
           /\ AllFieldsPopulated(req'.body)
           /\ resp'.status = 200)
             => /\ Cardinality(questions') = Cardinality(questions) + 1
                /\ questions \subseteq questions'
                /\ resp'.total_questions = Cardinality(questions')
                /\ \E q \in questions' \ questions :
                       /\ q.id = resp'.created
                       /\ q.id \notin Ids(questions)
                       /\ q.question = req'.body.question
                       /\ resp'.question_created = q.question]_vars
    /\ []((/\ req.op = "post_question"
           /\ ~HasSearchTerm(req.body)
           /\ resp.status = 200)
             => \E q \in questions : q.id = resp.created /\ Listed(q))

\* C3 witness: a create into a store that already fills a page.
CreatedBeyondFirstPage ==
    /\ req.op = "post_question" /\ resp.status = 200
    /\ "created" \in DOMAIN resp
    /\ resp.total_questions = MaxSeed + 1
    /\ resp.created = MaxSeed + 1

\* C4: a POST without a search term in which one of the four fields is missing or
\* empty answers 422 and creates nothing.
PartialBodyRefused ==
    [][(/\ req'.op = "post_question"
        /\ ~HasSearchTerm(req'.body)
        /\ ~AllFieldsPopulated(req'.body))
          => /\ resp'.status = 422
             /\ questions' = questions
             /\ nextId' = nextId]_vars

\* C4 witness: a body without its category, refused by a store that holds questions.
PartialBodyWasRefused ==
    /\ req.op = "post_question" /\ resp.status = 422
    /\ DOMAIN req.body = {"question", "answer", "difficulty"}
    /\ questions # {}

\* The stored questions a search term matches.
Matches(term) == {q \in questions : ILikeContains(q.question, term)}

\* C5: a search that matches answers with total_questions = the number of matches
\* before pagination, and with the requested page of the matches in `questions`.
SearchTotalIsMatchCount ==
    (req.op = "post_question" /\ HasSearchTerm(req.body) /\ resp.status = 200)
        => /\ resp.total_questions = Cardinality(Matches(req.body.searchTerm))
           /\ IsPageOf(resp.questions, All(Matches(req.body.searchTerm)), req.page)

\* The stored questions of a category.
InCategory(category_id) == {q \in questions : q.category = Str(category_id)}

\* C6: the by-category listing of an existing category holds the requested page of
\* the questions of that category, questions_per_page is the number returned and
\* total_questions counts every stored question.
CategoryListingTotals ==
    (req.op = "get_questions_by_category" /\ resp.status = 200)
        => /\ IsPageOf(resp.questions, All(InCategory(req.category_id)), req.page)
           /\ resp.questions_per_page = Len(resp.questions)
           /\ resp.total_questions = Cardinality(questions)

\* C6 witness: the second page of a category of 11 questions, in a larger store.
CategorySecondPageReached ==
    /\ req.op = "get_questions_by_category" /\ resp.status = 200
    /\ req.page = 2 /\ resp.questions_per_page = 1
    /\ Cardinality(InCategory(req.category_id)) = 11
    /\ resp.total_questions > 11

\* C7: the by-category listing answers 400 when no Category has the id, and 200
\* only for an existing category.
UnknownCategoryIsBadRequest ==
    req.op = "get_questions_by_category"
        => /\ resp.status \in {200, 400}
           /\ resp.status = 400 <=> req.category_id \notin {c.id : c \in categories}

\* C7 witness: 400 for category 3 although stored questions carry category "3".
UnknownCategoryRefused ==
    /\ req.op = "get_questions_by_category" /\ resp.status = 400
    /\ req.category_id = 3 /\ InCategory(3) # {}
    /\ req.page = 2

\* TRUE iff the quiz body has both keys and a quiz_category with type and id.
WellFormedQuiz(body) ==
    /\ {"quiz_category", "previous_questions"} \subseteq DOMAIN body
    /\ {"type", "id"} \subseteq DOMAIN body.quiz_category

\* The questions a quiz request asks among: not served before, of the category.
Candidates(body) ==
    {q \in questions :
        /\ q.id \notin Elems(body.previous_questions)
        /\ (body.quiz_category.type = "click" \/ q.category = body.quiz_category.id)}

\* C8: a quiz request answers 200 with a question that is not in
\* previous_questions and is of the requested category (of any category for
\* "click"), and with question = null exactly when there is no such question.
QuizServesAnUnseenCandidate ==
    (req.op = "get_random_quiz_question" /\ WellFormedQuiz(req.body))
        => /\ resp.status = 200
           /\ resp.question = None <=> Candidates(req.body) = {}
           /\ resp.question # None
                  => resp.question \in {Format(q) : q \in Candidates(req.body)}

\* C8 witness: null for a category whose questions were all served, while
\* questions of other categories were not.
QuizCategoryExhausted ==
    /\ req.op = "get_random_quiz_question" /\ WellFormedQuiz(req.body)
    /\ req.body.quiz_category.type # "click"
    /\ resp.status = 200 /\ resp.question = None
    /\ req.body.previous_questions # << >>
    /\ Ids(questions) \ Elems(req.body.previous_questions) # {}

\* TRUE iff the formatted list is in ascending difficulty.
AscendingDifficulty(list) ==
    \A i, j \in 1..Len(list) : i < j => list[i].difficulty <= list[j].difficulty

\* C9: GET /api/questions answers 404 exactly when the requested page of the
\* difficulty-ordered list is empty; otherwise 200 with that page,
\* questions_per_page = its length and total_questions = the number stored.
ListingIs404IffPageEmpty ==
    req.op = "get_questions"
        => /\ resp.status = 404 <=> PageLength(Cardinality(questions), req.page) = 0
           /\ resp.status # 404
                  => /\ resp.status = 200
                     /\ IsPageOf(resp.questions, OrderByDifficulty(questions), req.page)
                     /\ AscendingDifficulty(resp.questions)
                     /\ resp.questions_per_page = Len(resp.questions)
                     /\ resp.total_questions = Cardinality(questions)

\* C9 witness: a second page that holds questions.
ListingSecondPageReached ==
    /\ req.op = "get_questions" /\ resp.status = 200
    /\ req.page = 2 /\ resp.questions_per_page > 0
    /\ resp.total_questions > 10

\* TRUE iff no id occurs twice in the list.
NoRepeats(list) == \A i, j \in 1..Len(list) : list[i] = list[j] => i = j

\* The questions a game of the category goes through.
GameQuestions(quiz_category) ==
    {q.id : q \in {o \in questions :
                      quiz_category.type = "click" \/ o.category = quiz_category.id}}

\* TRUE iff the last request of the game was answered with question = null.
GameOver ==
    /\ req.op = "get_random_quiz_question"
    /\ resp.status = 200
    /\ resp.question = None

\* C10: a game never serves a question twice, it ends with question = null, by
\* then every question of the category was served exactly once, and every later
\* request is answered with null too.
GameServesEachQuestionOnce ==
    /\ [](req.op = "get_random_quiz_question"
             => /\ resp.status = 200
                /\ NoRepeats(NextPreviousQuestions))
    /\ [](GameOver
             => /\ Elems(req.body.previous_questions) = GameQuestions(req.body.quiz_category)
                /\ Len(req.body.previous_questions)
                     = Cardinality(GameQuestions(req.body.quiz_category)))
    /\ <>[]GameOver

\* C10 witness: a game over four questions ended.
GameOfFourEnded ==
    /\ GameOver
    /\ Len(req.body.previous_questions) = 4

====
